---------------------------- MODULE Spec2Model ----------------------------
(***************************************************************************)
(* The agent execution core of Commute-ai/ai-agents:                       *)
(*   - InsightRequest and its itineraries validator                        *)
(*       (app/agents/insight/agent.py)                                     *)
(*   - InsightAgent.execute with weather enrichment                        *)
(*       (app/agents/insight/agent.py, app/services/weather.py)            *)
(*   - the bound base agent's execute: type check, configuration and       *)
(*     template load, prompt rendering, the generation call, content       *)
(*     extraction and validation (app/agents/base.py)                      *)
(*   - the text-based InsightAgent.run (app/agents/insight_agent.py)       *)
(*                                                                         *)
(* InsightAgent.execute ends in super().execute(enhanced_request); the     *)
(* base execute it reaches is the body of BoundBaseAgent.execute, bound to *)
(* (InsightRequest, InsightResponse).                                      *)
(*                                                                         *)
(* Text is a sequence of tokens, each token a sequence of strings:         *)
(*   <<"sp">>, <<"nl">>   whitespace                                       *)
(*   <<"fence">>          a markdown fence (three backticks)               *)
(*   <<"json">>           the language tag after a fence                   *)
(*   <<"doc", a, b, ..>>  the JSON text of an InsightResponse whose        *)
(*                        itinerary_insights are the insights a, b, ..     *)
(*   <<"obj", k>>         the JSON text of an object of another shape      *)
(*   <<"text", t>>        text that is not JSON                            *)
(* An optional value (x | None) is a sequence of length at most one.       *)
(***************************************************************************)
EXTENDS Integers, Sequences, FiniteSets, TLC

\* Longest itineraries list a caller passes.
MaxItineraries == 2

\* Number of calls made one after the other on the same agent.
MaxExecutes == 2

\* Calls of execute in flight at the same time.
MaxConcurrent == 2

None == <<>>

Some(x) == <<x>>

IsNone(o) == o = <<>>

-----------------------------------------------------------------------------
(* Exceptions: the class of a raised exception and Python's isinstance.    *)

ExceptionParent(c) ==
    CASE c = "ValidationError"                -> "ValueError"
      [] c = "JSONDecodeError"                -> "ValueError"
      [] c = "WeatherServiceUnavailableError" -> "WeatherServiceError"
      [] c = "WeatherServiceError"            -> "Exception"
      [] c = "AgentValidationError"           -> "AgentError"
      [] c = "AgentProcessingError"           -> "AgentError"
      [] c = "AgentError"                     -> "Exception"
      [] c = "LLMConnectionError"             -> "LLMError"
      [] c = "LLMRateLimitError"              -> "LLMError"
      [] c = "LLMValidationError"             -> "LLMError"
      [] c = "LLMError"                       -> "Exception"
      [] c = "FileNotFoundError"              -> "OSError"
      [] c = "KeyError"                       -> "LookupError"
      [] c = "IndexError"                     -> "LookupError"
      [] c = "Exception"                      -> "BaseException"
      [] OTHER                                -> "Exception"

RECURSIVE IsInstance(_, _)
IsInstance(c, cls) ==
    IF c = cls THEN TRUE
    ELSE IF c = "BaseException" THEN FALSE
    ELSE IsInstance(ExceptionParent(c), cls)

\* The result of a call: a value returned or an exception raised.
NoOutcome == [kind |-> "none", exc |-> "", cause |-> "", value |-> <<>>]

Returned(v) == [kind |-> "returned", exc |-> "", cause |-> "", value |-> v]

Raised(c) == [kind |-> "raised", exc |-> c, cause |-> "", value |-> <<>>]

RaisedFrom(c, cause) == [kind |-> "raised", exc |-> c, cause |-> cause, value |-> <<>>]

-----------------------------------------------------------------------------
(* Domain data.  Coordinates are in units of 1/10000 degree.               *)

Coordinates(lat, lon) == [latitude |-> lat, longitude |-> lon]

HelsinkiCentral == Coordinates(601699, 249384)

EspooCentral == Coordinates(602055, 246559)

\* Coordinates(latitude=60.1695, longitude=24.9354)
DefaultCoordinates == Coordinates(601695, 249354)

Leg(c) == [from_place |-> [coordinates |-> c]]

Itinerary(legs) == [legs |-> legs]

ItineraryValues ==
    { Itinerary(<<>>), Itinerary(<<Leg(HelsinkiCentral), Leg(EspooCentral)>>) }

RECURSIVE SeqsUpTo(_, _)
SeqsUpTo(S, n) ==
    IF n = 0 THEN {<<>>}
    ELSE LET shorter == SeqsUpTo(S, n - 1)
         IN  shorter \cup {Append(s, x) : s \in {t \in shorter : Len(t) = n - 1}, x \in S}

ItineraryLists == SeqsUpTo(ItineraryValues, MaxItineraries)

PreferenceLists == {None, Some(<<"I prefer faster routes">>)}

SuppliedWeather == [description |-> "light rain", temperature |-> 3]

WeatherOptions == {None, Some(SuppliedWeather)}

\* An object passed to execute: its class and its attributes.
Object(type, its, prefs, w) ==
    [type |-> type, itineraries |-> its, user_preferences |-> prefs,
     weather_conditions |-> w]

NoObject == Object("none", <<>>, None, None)

\* A value that is no model at all, as in execute("not a pydantic model").
PlainString == Object("str", <<>>, None, None)

\* A validator that lets the empty list through.
validate_itineraries_lenient(v) == Returned(v)

\* app/agents/insight/agent.py: InsightRequest.validate_itineraries
validate_itineraries(v) ==
    IF v = <<>> THEN Raised("ValidationError") ELSE Returned(v)

\* InsightRequest(itineraries=.., user_preferences=.., weather_conditions=..)
InsightRequest(its, prefs, w) ==
    LET checked == validate_itineraries(its)
    IN  IF checked.kind = "raised" THEN checked
        ELSE Returned(Object("InsightRequest", checked.value, prefs, w))

-----------------------------------------------------------------------------
(* Weather lookup: app/services/weather.py                                 *)

FetchedWeather == [description |-> "clear sky", temperature |-> 10]

\* What the HTTP exchange with the weather API comes to.
HttpReply(kind, status, payload) == [kind |-> kind, status |-> status, payload |-> payload]

WeatherPayloads ==
    { "complete",             \* every field present and well typed
      "no_main",              \* data["main"] missing: KeyError
      "empty_weather_list",   \* data["weather"] == []: IndexError
      "main_not_object",      \* data["main"] is null: TypeError
      "bad_temperature",      \* temp is not a number: pydantic ValidationError
      "body_not_json" }       \* response.json() fails: aiohttp ContentTypeError

WeatherReplies ==
    { HttpReply("timeout", 0, ""), HttpReply("client_error", 0, "") }
    \cup { HttpReply("response", st, "complete") : st \in {201, 404, 503} }
    \cup { HttpReply("response", 200, p) : p \in WeatherPayloads }

\* The exception, if any, raised inside the try block of get_current_weather.
WeatherAttempt(reply) ==
    CASE reply.kind = "timeout"      -> Raised("TimeoutError")
      [] reply.kind = "client_error" -> Raised("ClientError")
      [] reply.status # 200          -> Raised("WeatherServiceUnavailableError")
      [] reply.payload = "body_not_json"      -> Raised("ClientError")
      [] reply.payload = "no_main"            -> Raised("KeyError")
      [] reply.payload = "empty_weather_list" -> Raised("IndexError")
      [] reply.payload = "main_not_object"    -> Raised("TypeError")
      [] reply.payload = "bad_temperature"    -> Raised("ValidationError")
      [] OTHER                                -> Returned(FetchedWeather)

\* WeatherService.get_current_weather
get_current_weather(service, reply) ==
    IF service.api_key = "" THEN Raised("ValueError")
    ELSE LET r == WeatherAttempt(reply)
         IN  IF r.kind = "raised"
                /\ \E c \in {"TimeoutError", "ClientError", "KeyError"} : IsInstance(r.exc, c)
             THEN RaisedFrom("WeatherServiceUnavailableError", r.exc)
             ELSE r

\* WeatherService(): raises ValueError without an API key, so a service that
\* exists has one.
WeatherServices == {None, Some([api_key |-> "owm-key"])}

-----------------------------------------------------------------------------
(* InsightAgent of app/agents/insight/agent.py                             *)

\* The coordinates _get_weather_for_itinerary looks the weather up for.
\* Coordinates taken from the itinerary's last leg.
WeatherCoordinatesOfLastLeg(itinerary) ==
    IF itinerary.legs # <<>>
    THEN itinerary.legs[Len(itinerary.legs)].from_place.coordinates
    ELSE DefaultCoordinates

WeatherCoordinates(itinerary) ==
    IF itinerary.legs # <<>>
    THEN itinerary.legs[1].from_place.coordinates
    ELSE DefaultCoordinates

\* The except clause of _get_weather_for_itinerary: the weather as an
\* optional value, or the exception that escapes.
WeatherOrNone(r) ==
    IF r.kind = "returned" THEN Returned(Some(r.value))
    ELSE IF IsInstance(r.exc, "ValueError") \/ IsInstance(r.exc, "WeatherServiceError")
    THEN Returned(None)
    ELSE r

\* A condition that enriches whether or not weather was supplied.
NeedsWeatherAlways(input_data) == input_data.itineraries # <<>>

\* The condition under which execute enriches the request.
NeedsWeather(input_data) ==
    IsNone(input_data.weather_conditions) /\ input_data.itineraries # <<>>

\* The request execute hands to the base agent once the weather is known.
EnhancedRequest(input_data, weather) ==
    InsightRequest(input_data.itineraries, input_data.user_preferences, weather)

-----------------------------------------------------------------------------
(* Text and the provider's replies                                         *)

SP == <<"sp">>

NL == <<"nl">>

FENCE == <<"fence">>

TAG == <<"json">>

IsSpace(tok) == tok = SP \/ tok = NL

RECURSIVE LStrip(_)
LStrip(s) == IF s # <<>> /\ IsSpace(Head(s)) THEN LStrip(Tail(s)) ELSE s

RECURSIVE RStrip(_)
RStrip(s) ==
    IF s # <<>> /\ IsSpace(s[Len(s)]) THEN RStrip(SubSeq(s, 1, Len(s) - 1)) ELSE s

\* str.strip()
Strip(s) == RStrip(LStrip(s))

RECURSIVE Join(_)
\* "".join(p.get("text", "") for p in content)
Join(parts) == IF parts = <<>> THEN <<>> ELSE Head(parts) \o Join(Tail(parts))

InsightNames == {"A", "B"}

\* The ItineraryInsight a name in a document stands for.
InsightValue(name) ==
    IF name = "A"
    THEN [ai_insight |-> "A", leg_insights |-> <<>>]
    ELSE [ai_insight |-> name,
          leg_insights |-> <<[ai_insight |-> "first leg"], [ai_insight |-> "second leg"]>>]

\* The JSON text of the InsightResponse with these insights.
Doc(names) == <<"doc">> \o names

InsightResponse(names) ==
    [itinerary_insights |-> [i \in 1..Len(names) |-> InsightValue(names[i])]]

Documents ==
    { Doc(<<>>), Doc(<<"A">>), Doc(<<"B">>), Doc(<<"A", "B">>), Doc(<<"B", "A">>),
      Doc(<<"A", "B", "A">>) }

OtherObject == <<"obj", "error">>

NotJson == <<"text", "invalid json">>

Bodies == Documents \cup {OtherObject, NotJson}

\* The bodies the provider also sends fenced or padded.
WrappedBodies == {Doc(<<"B">>), Doc(<<"A", "B">>), NotJson}

Plain(d) == <<d>>

Padded(d) == <<SP, NL, d, SP>>

FencedJson(d) == <<FENCE, TAG, NL, d, NL, FENCE>>

FencedPlain(d) == <<FENCE, NL, d, NL, FENCE>>

PaddedFencedJson(d) == <<SP, NL, FENCE, TAG, NL, SP, d, SP, NL, FENCE, NL, SP>>

\* message.content of the first choice: None, a string or a list of parts.
Content(form, text, parts) == [form |-> form, text |-> text, parts |-> parts]

StrContent(s) == Content("str", s, <<>>)

Contents ==
    { Content("none", <<>>, <<>>), StrContent(<<>>), StrContent(<<SP, NL>>),
      StrContent(<<FENCE, TAG, NL, FENCE>>),
      Content("list", <<>>, <<>>),
      Content("list", <<>>, <<<<SP>>, <<Doc(<<"A">>)>>>>) }
    \cup { StrContent(Plain(d)) : d \in Bodies }
    \cup { StrContent(Padded(d)) : d \in WrappedBodies }
    \cup { StrContent(FencedJson(d)) : d \in WrappedBodies }
    \cup { StrContent(FencedPlain(d)) : d \in WrappedBodies }
    \cup { StrContent(PaddedFencedJson(d)) : d \in WrappedBodies }

ProviderErrors == {"LLMConnectionError", "LLMRateLimitError", "LLMValidationError"}

Reply(kind, exc, content) == [kind |-> kind, exc |-> exc, content |-> content]

NoReply == Reply("none", "", Content("none", <<>>, <<>>))

ProviderReplies ==
    { Reply("error", e, Content("none", <<>>, <<>>)) : e \in ProviderErrors }
    \cup { Reply("completion", "", c) : c \in Contents }

-----------------------------------------------------------------------------
(* The bound base agent: app/agents/base.py, BoundBaseAgent.execute        *)

\* isinstance(arg, in_t), in_t being InsightRequest
IsInputModel(a) == a.type = "InsightRequest"

REQUIRED_CONFIG_KEYS == {"model"}

ALLOWED_CONFIG_KEYS ==
    {"model", "temperature", "max_completion_tokens", "top_p", "reasoning_effort"}

ConfigFile(state, keys) == [state |-> state, keys |-> keys]

GoodConfig == ConfigFile("ok", {"model", "temperature"})

ConfigFiles ==
    { GoodConfig,
      ConfigFile("missing", {}),
      ConfigFile("not_json", {}),
      ConfigFile("ok", {"temperature"}),
      ConfigFile("ok", {"model", "seed"}) }

TemplateFiles == {"ok", "missing", "syntax_error"}

Package(config, system, user) == [config |-> config, system |-> system, user |-> user]

\* The agent package as installed: sound, or with one defective file.
Packages ==
    { Package(c, "ok", "ok") : c \in ConfigFiles }
    \cup { Package(GoodConfig, t, "ok") : t \in TemplateFiles }
    \cup { Package(GoodConfig, "ok", t) : t \in TemplateFiles }

\* Reading config.json, system.j2 and user.j2, parsing and compiling them and
\* checking the configuration keys: the model configuration, or the error.
LoadPackage(p) ==
    IF p.config.state = "missing" \/ p.system = "missing" \/ p.user = "missing"
    THEN Raised("FileNotFoundError")
    ELSE IF p.config.state = "not_json" THEN Raised("ValueError")
    ELSE IF p.system = "syntax_error" THEN Raised("ValueError")
    ELSE IF p.user = "syntax_error" THEN Raised("ValueError")
    ELSE IF REQUIRED_CONFIG_KEYS \ p.config.keys # {} THEN Raised("ValueError")
    ELSE IF p.config.keys \ ALLOWED_CONFIG_KEYS # {} THEN Raised("ValueError")
    ELSE Returned(p.config.keys \cap ALLOWED_CONFIG_KEYS)

\* arg.model_dump(): the fields of the model as template variables.
model_dump(a) ==
    [itineraries |-> a.itineraries, user_preferences |-> a.user_preferences,
     weather_conditions |-> a.weather_conditions]

\* template.render(**variables): the text is fixed by the template and the
\* values of its variables.
Render(template, variables) == [template |-> template, variables |-> variables]

\* The two messages in the wrong order.
MessagesUserFirst(a) ==
    << [role |-> "user", content |-> Render("user.j2", model_dump(a))],
       [role |-> "system", content |-> Render("system.j2", model_dump(a))] >>

\* The messages of the generation call.
Messages(a) ==
    << [role |-> "system", content |-> Render("system.j2", model_dump(a))],
       [role |-> "user", content |-> Render("user.j2", model_dump(a))] >>

\* The arguments of client.chat.completions.create.
GenerationRequest(model_config, a) ==
    [model_config |-> model_config, messages |-> Messages(a), stream |-> FALSE,
     response_format |-> "InsightResponse"]

\* `not content`
IsEmptyContent(c) ==
    \/ c.form = "none"
    \/ c.form = "str" /\ c.text = <<>>
    \/ c.form = "list" /\ c.parts = <<>>

\* The string handed to validation: list parts joined, then str.strip().
ExtractJson(c) == Strip(IF c.form = "list" THEN Join(c.parts) ELSE c.text)

\* A validation that hands the insights back in reverse order.
model_validate_json_reversed(text) ==
    LET body == Strip(text)
        n == Len(body[1]) - 1
    IN  IF Len(body) = 1 /\ Head(body[1]) = "doc"
        THEN Returned(InsightResponse([i \in 1..n |-> body[1][n + 2 - i]]))
        ELSE Raised("ValidationError")

\* out_t.model_validate_json(content): JSON allows whitespace around the
\* document and nothing else; the document must have the output model's shape.
model_validate_json(text) ==
    LET body == Strip(text)
    IN  IF Len(body) = 1 /\ Head(body[1]) = "doc"
        THEN Returned(InsightResponse(Tail(body[1])))
        ELSE Raised("ValidationError")

\* Lines 118-126: from the completion's content to the validated output.
ParseCompletion(c) ==
    IF IsEmptyContent(c) THEN Raised("ValueError")
    ELSE model_validate_json(ExtractJson(c))

-----------------------------------------------------------------------------
(* The text-based agent: app/agents/insight_agent.py                       *)
(* A response is a sequence of lines (the text split at "\n"); a line is   *)
(* <<kind, words, pad>>: kind "marker" (the line starts with "Route        *)
(* Option" or "Option"), "text" or "blank"; pad "sp" when blanks surround  *)
(* the line.                                                               *)

Line(kind, words, pad) == <<kind, words, pad>>

\* line.strip()
StripLine(l) == Line(l[1], l[2], "")

\* A test that knows the "Route Option" prefix only.
IsMarkerRouteOnly(l) == l[1] = "marker" /\ l[2] = "Route Option"

\* line.strip().startswith(("Route Option", "Option"))
IsMarker(l) == l[1] = "marker"

\* bool(line.strip())
IsNonEmpty(l) == l[1] # "blank"

RECURSIVE DropBlankHead(_)
DropBlankHead(ls) ==
    IF ls # <<>> /\ ~IsNonEmpty(Head(ls)) THEN DropBlankHead(Tail(ls)) ELSE ls

RECURSIVE DropBlankTail(_)
DropBlankTail(ls) ==
    IF ls # <<>> /\ ~IsNonEmpty(ls[Len(ls)])
    THEN DropBlankTail(SubSeq(ls, 1, Len(ls) - 1))
    ELSE ls

\* response.strip(): blank lines at both ends go, and so do the blanks before
\* the first and after the last line that is left.
StripText(ls) ==
    LET kept == DropBlankTail(DropBlankHead(ls))
    IN  IF kept = <<>> THEN <<>>
        ELSE [i \in 1..Len(kept) |->
                 IF i = 1 \/ i = Len(kept)
                 THEN (IF Len(kept) = 1 THEN StripLine(kept[i])
                       ELSE IF i = 1 THEN Line(kept[i][1], kept[i][2], IF kept[i][3] = "" THEN "" ELSE "right")
                       ELSE Line(kept[i][1], kept[i][2], IF kept[i][3] = "" THEN "" ELSE "left"))
                 ELSE kept[i]]

\* The loop of _parse_insights_response over the lines: the insights closed
\* so far and the lines of the one being collected.
RECURSIVE ParseLines(_, _, _)
ParseLines(ls, insights, current) ==
    IF ls = <<>>
    THEN (IF current # <<>> THEN Append(insights, current) ELSE insights)
    ELSE IF IsMarker(Head(ls))
         THEN (IF current # <<>>
               THEN ParseLines(Tail(ls), Append(insights, current), <<>>)
               ELSE ParseLines(Tail(ls), insights, current))
         ELSE IF IsNonEmpty(Head(ls))
              THEN ParseLines(Tail(ls), insights, Append(current, StripLine(Head(ls))))
              ELSE ParseLines(Tail(ls), insights, current)

\* A parse whose fallback repeats the response as it came, unstripped.
parse_insights_response_unstripped(response, num_itineraries) ==
    LET insights == ParseLines(response, <<>>, <<>>)
    IN  IF Len(insights) # num_itineraries
        THEN [i \in 1..num_itineraries |-> response]
        ELSE insights

\* A parse without the fallback.
parse_insights_response_no_fallback(response, num_itineraries) ==
    ParseLines(response, <<>>, <<>>)

\* InsightAgent._parse_insights_response
parse_insights_response(response, num_itineraries) ==
    LET insights == ParseLines(response, <<>>, <<>>)
    IN  IF Len(insights) # num_itineraries
        THEN [i \in 1..num_itineraries |-> StripText(response)]
        ELSE insights

\* One ItineraryWithInsight: the itinerary's fields, its legs as
\* LegWithInsight without insight, and the itinerary's insight.
ItineraryWithInsight(itinerary, insight) ==
    [legs |-> [j \in 1..Len(itinerary.legs) |->
                  [from_place |-> itinerary.legs[j].from_place, ai_insight |-> None]],
     ai_insight |-> insight]

\* A loop that hands the insights out from the last to the first.
ZipInsightsReversed(itineraries, insights) ==
    IF Len(itineraries) # Len(insights) THEN Raised("ValueError")
    ELSE Returned([i \in 1..Len(itineraries) |->
                      ItineraryWithInsight(itineraries[i],
                                           insights[Len(insights) + 1 - i])])

\* The loop of _generate_insights over zip(itineraries, insights, strict=True)
ZipInsights(itineraries, insights) ==
    IF Len(itineraries) # Len(insights) THEN Raised("ValueError")
    ELSE Returned([i \in 1..Len(itineraries) |->
                      ItineraryWithInsight(itineraries[i], insights[i])])

\* InsightPrompts.get_system_prompt(): a fixed text.
SystemPrompt == Render("get_system_prompt", <<>>)

\* The user prompt of _generate_insights: build_comparison_prompt over every
\* formatted itinerary, and over the formatted preferences when there are any.
ComparisonPrompt(itineraries, user_preferences) ==
    Render("build_comparison_prompt",
           <<itineraries,
             IF IsNone(user_preferences) \/ user_preferences = Some(<<>>)
             THEN None ELSE user_preferences>>)

Marker == Line("marker", "Route Option", "")

TextReplies ==
    { <<Marker, Line("text", "Fast bus route.", "")>>,
      <<Marker, Line("text", "Fast bus route.", "sp"), Line("text", "Great for speed.", ""),
        Line("blank", "", ""),
        Line("marker", "Option", "sp"), Line("text", "Scenic tram route.", "")>>,
      <<Line("text", "General insight.", "sp")>>,
      <<Line("text", "Preamble.", ""), Marker, Line("text", "Fast bus route.", "")>>,
      <<>> }

-----------------------------------------------------------------------------
(* The LLM providers: app/services/llm                                     *)
(* The text of an exception is taken as the set of the patterns that its   *)
(* lower-cased str() contains; temperatures are in tenths.                 *)

\* LLMProviderFactory._providers
ProviderRegistry == {"openai", "groq"}

\* str.lower() on the provider names that occur.
Lower(name) ==
    CASE name = "GROQ"   -> "groq"
      [] name = "OpenAI" -> "openai"
      [] OTHER           -> name

\* GroqProvider(api_key=.., model=..) and OpenAIProvider(api_key=.., model=..):
\* api_key is a required parameter.
ProviderInstance(name, api_key, model) ==
    IF IsNone(api_key) THEN Raised("TypeError")
    ELSE Returned([provider |-> name, api_key |-> api_key[1], model |-> model])

\* LLMProviderFactory.create_provider(provider_name, api_key=.., model=..)
create_provider(provider_name, api_key, model) ==
    IF provider_name \notin ProviderRegistry THEN Raised("ValueError")
    ELSE ProviderInstance(provider_name, api_key, model)

\* app.config.settings, as far as create_llm_from_config reads it.
Settings(name, groq_key, openai_key) ==
    [LLM_PROVIDER |-> name, GROQ_API_KEY |-> groq_key, GROQ_MODEL |-> "llama-3.3-70b-versatile",
     OPENAI_API_KEY |-> openai_key, OPENAI_MODEL |-> "gpt-4o-mini"]

\* A test that takes only None as a missing key.
KeyIsMissingNoneOnly(key) == IsNone(key)

\* `not key`: the key is None or the empty string.
KeyIsMissing(key) == IsNone(key) \/ key = Some("")

create_llm_from_config(settings) ==
    LET provider_name == Lower(settings.LLM_PROVIDER)
    IN  IF provider_name = "groq"
        THEN IF KeyIsMissing(settings.GROQ_API_KEY) THEN Raised("ValueError")
             ELSE create_provider("groq", settings.GROQ_API_KEY, settings.GROQ_MODEL)
        ELSE IF provider_name = "openai"
        THEN IF KeyIsMissing(settings.OPENAI_API_KEY) THEN Raised("ValueError")
             ELSE create_provider("openai", settings.OPENAI_API_KEY, settings.OPENAI_MODEL)
        ELSE Raised("ValueError")

ProviderNames == {"groq", "GROQ", "openai", "OpenAI", "anthropic", ""}

ApiKeys == {None, Some(""), Some("secret-key")}

SettingsValues ==
    { Settings(n, g, o) : n \in ProviderNames, g \in ApiKeys, o \in ApiKeys }

\* The arguments of generate and generate_stream.
ChatMessages ==
    { << [role |-> "user", content |-> "test"] >>,
      << [role |-> "system", content |-> "Answer in JSON"],
         [role |-> "user", content |-> "test"] >> }

MaxTokensValues == {None, Some(0), Some(500)}

TemperatureValues == {None, Some(0), Some(2)}

\* GroqProvider._should_use_json_format: some message mentions json.
should_use_json_format(messages) ==
    \E i \in DOMAIN messages : messages[i].content = "Answer in JSON"

\* `value or default`
OrDefault(value, default) ==
    IF IsNone(value) \/ value[1] = 0 THEN default ELSE value[1]

\* The keyword arguments of self._client.chat.completions.create.
request_params(instance, stream, messages, max_tokens, temperature) ==
    [model |-> instance.model,
     messages |-> messages,
     max_tokens |-> OrDefault(max_tokens, 1000),
     temperature |-> OrDefault(temperature, 7),
     stream |-> stream,
     response_format |-> IF ~stream /\ should_use_json_format(messages)
                         THEN Some("json_object") ELSE None]

\* What the API call comes to: a completion, its content possibly None, or
\* an exception of some class whose text contains some of the patterns.
ApiReply(kind, content, cls, patterns) ==
    [kind |-> kind, content |-> content, cls |-> cls, patterns |-> patterns]

ApiFailure(cls, patterns) == ApiReply("exception", None, cls, patterns)

ApiReplies ==
    { ApiReply("completion", Some("Generated text"), "", {}),
      ApiReply("completion", None, "", {}),
      ApiFailure("RateLimitError", {"429", "rate_limit"}),
      ApiFailure("BadRequestError", {"400", "invalid"}),
      ApiFailure("AuthenticationError", {"401", "invalid", "api key"}),
      ApiFailure("PermissionDeniedError", {"unauthorized"}),
      ApiFailure("APIConnectionError", {"connection"}),
      ApiFailure("APIConnectionError", {"connection", "429"}),
      ApiFailure("APITimeoutError", {"timeout", "invalid"}),
      ApiFailure("APITimeoutError", {}),
      ApiFailure("InternalServerError", {}) }

\* A classification that looks for connection failures first.
ClassifyErrorConnectionFirst(e) ==
    IF e.patterns \cap {"connection", "timeout", "network"} # {}
    THEN RaisedFrom("LLMConnectionError", e.cls)
    ELSE IF e.patterns \cap {"rate_limit", "429"} # {}
    THEN RaisedFrom("LLMRateLimitError", e.cls)
    ELSE IF e.patterns \cap {"validation", "invalid", "400", "bad request",
                             "unauthorized", "401", "api key"} # {}
    THEN RaisedFrom("LLMValidationError", e.cls)
    ELSE RaisedFrom("LLMConnectionError", e.cls)

\* The except clause of generate and of _stream_generator.
ClassifyError(e) ==
    IF e.patterns \cap {"rate_limit", "429"} # {}
    THEN RaisedFrom("LLMRateLimitError", e.cls)
    ELSE IF e.patterns \cap {"validation", "invalid", "400", "bad request"} # {}
    THEN RaisedFrom("LLMValidationError", e.cls)
    ELSE IF e.patterns \cap {"unauthorized", "401", "api key"} # {}
    THEN RaisedFrom("LLMValidationError", e.cls)
    ELSE IF e.patterns \cap {"connection", "timeout", "network"} # {}
    THEN RaisedFrom("LLMConnectionError", e.cls)
    ELSE RaisedFrom("LLMConnectionError", e.cls)

\* What generate returns or raises once the API call is over; the stream
\* yields the chunks that have content.
GenerateResult(r) ==
    IF r.kind = "exception" THEN ClassifyError(r)
    ELSE Returned(IF IsNone(r.content) THEN "" ELSE r.content[1])

\* The provider layer: the instance created, the call in progress and its
\* result.
ProviderState(ppc, instance, created, request, params, api_reply, result) ==
    [pc |-> ppc, instance |-> instance, created |-> created, request |-> request,
     params |-> params, api_reply |-> api_reply, result |-> result]

NoProvider == ProviderState("none", None, NoOutcome, None, None, None, NoOutcome)

-----------------------------------------------------------------------------
(* Calls of execute in flight at the same time                             *)

\* One call of InsightAgent.execute: its position, its argument, and what it
\* has sent and received so far.
Call(cpc, request, weather_reply, enhanced, csent, creply, coutcome) ==
    [pc |-> cpc, arg |-> request, weather_reply |-> weather_reply,
     enhanced_request |-> enhanced, sent |-> csent, reply |-> creply,
     outcome |-> coutcome]

NoCall == Call("idle", NoObject, None, NoObject, None, NoReply, NoOutcome)

\* Requests of concurrent callers: each differs from the others.
ConcurrentRequests ==
    { Object("InsightRequest", <<Itinerary(<<>>)>>, None, None),
      Object("InsightRequest", <<Itinerary(<<Leg(HelsinkiCentral), Leg(EspooCentral)>>)>>,
             None, None),
      Object("InsightRequest",
             <<Itinerary(<<>>), Itinerary(<<Leg(HelsinkiCentral), Leg(EspooCentral)>>)>>,
             None, Some(SuppliedWeather)) }

ConcurrentWeatherReplies ==
    { HttpReply("response", 200, "complete"), HttpReply("timeout", 0, ""),
      HttpReply("response", 200, "empty_weather_list") }

ConcurrentProviderReplies ==
    { Reply("error", "LLMConnectionError", Content("none", <<>>, <<>>)),
      Reply("completion", "", StrContent(Plain(Doc(<<"A">>)))),
      Reply("completion", "", StrContent(Plain(Doc(<<"B", "A">>)))),
      Reply("completion", "", StrContent(Plain(NotJson))) }

\* BoundBaseAgent.execute from its start to the generation call: the type
\* check, the load and the request that is sent, or the exception raised.
ExecuteUpToGeneration(files, request) ==
    IF ~IsInputModel(request) THEN Raised("TypeError")
    ELSE LET loaded == LoadPackage(files)
         IN  IF loaded.kind = "raised" THEN loaded
             ELSE Returned(GenerationRequest(loaded.value, request))

\* The call goes on from the enhanced request to its next suspension, the
\* generation call, or ends with the exception raised on the way.
Proceed(c, files, enhanced) ==
    LET g == ExecuteUpToGeneration(files, enhanced)
    IN  IF g.kind = "raised"
        THEN [c EXCEPT !.pc = "failed", !.outcome = g]
        ELSE [c EXCEPT !.pc = "generate_wait", !.enhanced_request = enhanced,
                       !.sent = Some(g.value)]

-----------------------------------------------------------------------------
(* The HTTP endpoint: app/api/v1/endpoints/insight.py                      *)

\* What the endpoint answers: a status, the detail of an error (a prefix
\* and the text of the exception) and the insights of a success.
HttpResponse(status, detail, body) == [status |-> status, detail |-> detail, body |-> body]

\* No response yet.
NoResponse == HttpResponse(0, <<>>, <<>>)

\* Except clauses that answer a ValueError with 400.
HTTPExceptionBadRequest(exc, text) ==
    IF IsInstance(exc, "LLMError")
    THEN HttpResponse(503, <<"AI service temporarily unavailable: ", text>>, <<>>)
    ELSE IF IsInstance(exc, "ValueError")
    THEN HttpResponse(400, <<"Configuration error: ", text>>, <<>>)
    ELSE HttpResponse(500, <<"Internal server error: ", text>>, <<>>)

\* The except clauses of generate_itineraries_with_insights, in their order:
\* LLMError, ValueError, Exception.
HTTPException(exc, text) ==
    IF IsInstance(exc, "LLMError")
    THEN HttpResponse(503, <<"AI service temporarily unavailable: ", text>>, <<>>)
    ELSE IF IsInstance(exc, "ValueError")
    THEN HttpResponse(500, <<"Configuration error: ", text>>, <<>>)
    ELSE HttpResponse(500, <<"Internal server error: ", text>>, <<>>)

-----------------------------------------------------------------------------
(* State                                                                   *)

VARIABLES
    pc,               \* where the current call stands
    agent,            \* the entry point called: "insight", "base", "run", or
                      \* "construct" when the request could not be built
    arg,              \* the object the caller passes to execute, or the
                      \* arguments of run or of a refused construction
    enhanced_request, \* the object that reaches the base agent's execute
    weather_service,  \* the agent's weather service, or None
    pkg,              \* the files of the agent's package
    lookup,           \* the coordinates of the weather lookup of this call
    sent,             \* the generation request of this call
    reply,            \* what the provider answered in this call
    outcome,          \* the result of this call
    trace,            \* the steps of this call, in the order taken
    executes,         \* calls started so far
    returned,         \* calls that returned a value so far
    generate_calls,   \* generation calls issued so far
    weather_result,   \* what the get_current_weather call just ended came
                      \* to; gone once execute has moved on
    package_reads,    \* times the agent package's files were read so far
    http,             \* the HTTP response to the request being served
    calls,            \* the calls of execute in flight at the same time
    llm               \* the LLM provider: its creation and its generate call

vars ==
    << pc, agent, arg, enhanced_request, weather_service, pkg, lookup, sent, reply,
       outcome, trace, executes, returned, generate_calls, weather_result,
       package_reads, http, calls, llm >>

singleCall ==
    << pc, agent, arg, enhanced_request, lookup, sent, reply, outcome, trace,
       executes, returned, generate_calls, weather_result, package_reads, http >>

Callers == 1..MaxConcurrent

counters == << executes, returned, generate_calls >>

environment == << weather_service, pkg >>

\* Objects that are not InsightRequest instances: a string, and an object
\* of another class with the same attributes.
ForeignObjects ==
    { PlainString }
    \cup { Object("Duck", <<Itinerary(<<Leg(EspooCentral)>>)>>, None, w) :
             w \in WeatherOptions }

Init ==
    /\ pc = "idle"
    /\ agent = "none"
    /\ arg = NoObject
    /\ enhanced_request = NoObject
    /\ weather_service \in WeatherServices
    /\ pkg \in Packages
    /\ lookup = None
    /\ sent = None
    /\ reply = NoReply
    /\ outcome = NoOutcome
    /\ trace = <<>>
    /\ executes = 0
    /\ returned = 0
    /\ generate_calls = 0
    /\ weather_result = NoOutcome
    /\ package_reads = 0
    /\ http = NoResponse
    /\ calls = [i \in Callers |-> NoCall]
    /\ llm = NoProvider

\* The call ends by raising: nothing after the raise runs.
Fail(o, steps) ==
    /\ pc' = "failed"
    /\ outcome' = o
    /\ trace' = trace \o steps

\* The call in progress was made by the HTTP endpoint.
FromEndpoint == trace # <<>> /\ Head(trace) = "post"

-----------------------------------------------------------------------------
(* The caller                                                              *)

\* The caller builds InsightRequest(...); the validator may refuse it.
ConstructRequest(its, prefs, w) ==
    /\ pc = "idle"
    /\ executes < MaxExecutes
    /\ executes' = executes + 1
    /\ LET r == InsightRequest(its, prefs, w)
       IN  IF r.kind = "raised"
           THEN /\ Fail(r, <<"construct">>)
                /\ agent' = "construct"
                /\ arg' = Object("arguments", its, prefs, w)
           ELSE /\ pc' = "ready"
                /\ arg' = r.value
                /\ trace' = <<"construct">>
                /\ UNCHANGED << agent, outcome >>
    /\ UNCHANGED << enhanced_request, lookup, sent, reply >>
    /\ UNCHANGED << returned, generate_calls >>
    /\ UNCHANGED << environment, calls, llm >>
    /\ UNCHANGED << weather_result, package_reads, http >>

\* The caller holds an object that is no InsightRequest.
TakeForeignObject(o) ==
    /\ pc = "idle"
    /\ executes < MaxExecutes
    /\ executes' = executes + 1
    /\ pc' = "ready"
    /\ arg' = o
    /\ UNCHANGED << agent, enhanced_request, lookup, sent, reply, outcome, trace >>
    /\ UNCHANGED << returned, generate_calls >>
    /\ UNCHANGED << environment, calls, llm >>
    /\ UNCHANGED << weather_result, package_reads, http >>

-----------------------------------------------------------------------------
(* InsightAgent.execute: app/agents/insight/agent.py lines 70-87           *)

\* execute up to its first suspension: the weather lookup, if one is made.
InsightExecute ==
    /\ pc = "ready"
    /\ agent' = "insight"
    /\ IF arg.type = "str"
       THEN \* input_data.weather_conditions: a str has no such attribute
            /\ Fail(Raised("AttributeError"), <<"enrich">>)
            /\ UNCHANGED << enhanced_request, lookup >>
       ELSE IF NeedsWeather(arg)
       THEN IF IsNone(weather_service)
            THEN LET e == EnhancedRequest(arg, None)
                 IN  IF e.kind = "raised"
                     THEN /\ Fail(e, <<"enrich">>)
                          /\ UNCHANGED << enhanced_request, lookup >>
                     ELSE /\ pc' = "type_check"
                          /\ enhanced_request' = e.value
                          /\ trace' = trace \o <<"enrich">>
                          /\ UNCHANGED << lookup, outcome >>
            ELSE /\ pc' = "weather_wait"
                 /\ lookup' = Some(WeatherCoordinates(arg.itineraries[1]))
                 /\ trace' = trace \o <<"enrich", "weather_lookup">>
                 /\ UNCHANGED << enhanced_request, outcome >>
       ELSE /\ pc' = "type_check"
            /\ enhanced_request' = arg
            /\ trace' = trace \o <<"enrich">>
            /\ UNCHANGED << lookup, outcome >>
    /\ UNCHANGED << arg, sent, reply >>
    /\ UNCHANGED counters
    /\ UNCHANGED << environment, calls, llm >>
    /\ UNCHANGED << weather_result, package_reads, http >>

\* A resumption that writes the fetched weather into the caller's request.
WeatherReplyInPlace(r) ==
    /\ pc = "weather_wait"
    /\ LET got == WeatherOrNone(get_current_weather(weather_service[1], r))
       IN  IF got.kind = "raised"
           THEN /\ Fail(got, <<"weather_result">>)
                /\ UNCHANGED << arg, enhanced_request >>
           ELSE /\ pc' = "type_check"
                /\ arg' = [arg EXCEPT !.weather_conditions = got.value]
                /\ enhanced_request' = arg'
                /\ trace' = trace \o <<"weather_result">>
                /\ UNCHANGED outcome
    /\ UNCHANGED << agent, lookup, sent, reply >>
    /\ UNCHANGED counters
    /\ UNCHANGED << environment, calls, llm >>
    /\ weather_result' = get_current_weather(weather_service[1], r)
    /\ UNCHANGED << package_reads, http >>

\* The weather lookup ends; execute resumes and builds the enhanced request.
WeatherReply(r) ==
    /\ pc = "weather_wait"
    /\ LET got == WeatherOrNone(get_current_weather(weather_service[1], r))
       IN  IF got.kind = "raised"
           THEN /\ Fail(got, <<"weather_result">>)
                /\ UNCHANGED enhanced_request
           ELSE LET e == EnhancedRequest(arg, got.value)
                IN  IF e.kind = "raised"
                    THEN /\ Fail(e, <<"weather_result">>)
                         /\ UNCHANGED enhanced_request
                    ELSE /\ pc' = "type_check"
                         /\ enhanced_request' = e.value
                         /\ trace' = trace \o <<"weather_result">>
                         /\ UNCHANGED outcome
    /\ UNCHANGED << agent, arg, lookup, sent, reply >>
    /\ UNCHANGED counters
    /\ UNCHANGED << environment, calls, llm >>
    /\ weather_result' = get_current_weather(weather_service[1], r)
    /\ UNCHANGED << package_reads, http >>

-----------------------------------------------------------------------------
(* BoundBaseAgent.execute: app/agents/base.py lines 36-126                 *)

\* The base agent's execute called on the object as it is.
BaseExecute ==
    /\ pc = "ready"
    /\ ~FromEndpoint
    /\ agent' = "base"
    /\ pc' = "type_check"
    /\ enhanced_request' = arg
    /\ UNCHANGED << arg, lookup, sent, reply, outcome, trace >>
    /\ UNCHANGED counters
    /\ UNCHANGED << environment, calls, llm >>
    /\ UNCHANGED << weather_result, package_reads, http >>

\* Lines 37-42
TypeCheck ==
    /\ pc = "type_check"
    /\ IF ~IsInputModel(enhanced_request)
       THEN Fail(Raised("TypeError"), <<"type_check">>)
       ELSE /\ pc' = "load"
            /\ trace' = trace \o <<"type_check">>
            /\ UNCHANGED outcome
    /\ UNCHANGED << agent, arg, enhanced_request, lookup, sent, reply >>
    /\ UNCHANGED counters
    /\ UNCHANGED << environment, calls, llm >>
    /\ weather_result' = NoOutcome
    /\ UNCHANGED << package_reads, http >>

\* A load that goes on with an empty configuration when the package is
\* defective.
LoadMasking ==
    /\ pc = "load"
    /\ pc' = "render"
    /\ trace' = trace \o <<"load">>
    /\ package_reads' = package_reads + 1
    /\ UNCHANGED << agent, arg, enhanced_request, lookup, sent, reply, outcome >>
    /\ UNCHANGED counters
    /\ UNCHANGED << environment, calls, llm >>
    /\ UNCHANGED << weather_result, http >>

\* Lines 44-91
Load ==
    /\ pc = "load"
    /\ LET loaded == LoadPackage(pkg)
       IN  IF loaded.kind = "raised"
           THEN Fail(loaded, <<"load">>)
           ELSE /\ pc' = "render"
                /\ trace' = trace \o <<"load">>
                /\ UNCHANGED outcome
    /\ UNCHANGED << agent, arg, enhanced_request, lookup, sent, reply >>
    /\ UNCHANGED counters
    /\ UNCHANGED << environment, calls, llm >>
    /\ package_reads' = package_reads + 1
    /\ UNCHANGED << weather_result, http >>

\* Lines 93-116: the prompts are rendered and the generation call is issued.
Generate ==
    /\ pc = "render"
    /\ pc' = "generate_wait"
    /\ sent' = Some(GenerationRequest(LoadPackage(pkg).value, enhanced_request))
    /\ generate_calls' = generate_calls + 1
    /\ trace' = trace \o <<"render", "generate">>
    /\ UNCHANGED << agent, arg, enhanced_request, lookup, reply, outcome >>
    /\ UNCHANGED << executes, returned >>
    /\ UNCHANGED << environment, calls, llm >>
    /\ UNCHANGED << weather_result, package_reads, http >>

\* A reply handler that issues the generation call again when the provider
\* fails.
ProviderReplyRetrying(r) ==
    /\ pc = "generate_wait"
    /\ agent \in {"insight", "base"}
    /\ reply' = r
    /\ IF r.kind = "error"
       THEN /\ pc' = "render"
            /\ UNCHANGED << outcome, trace >>
       ELSE LET result == ParseCompletion(r.content)
            IN  IF result.kind = "raised"
                THEN Fail(result, <<"extract", "validate">>)
                ELSE /\ pc' = "done"
                     /\ outcome' = result
                     /\ trace' = trace \o <<"extract", "validate">>
    /\ UNCHANGED << agent, arg, enhanced_request, lookup, sent >>
    /\ UNCHANGED counters
    /\ UNCHANGED << environment, calls, llm >>
    /\ UNCHANGED << weather_result, package_reads, http >>

\* A reply handler that reports a provider failure as a processing error.
ProviderReplyWrapping(r) ==
    /\ pc = "generate_wait"
    /\ agent \in {"insight", "base"}
    /\ reply' = r
    /\ IF r.kind = "error"
       THEN Fail(RaisedFrom("AgentProcessingError", r.exc), <<>>)
       ELSE LET result == ParseCompletion(r.content)
            IN  IF result.kind = "raised"
                THEN Fail(result, <<"extract", "validate">>)
                ELSE /\ pc' = "done"
                     /\ outcome' = result
                     /\ trace' = trace \o <<"extract", "validate">>
    /\ UNCHANGED << agent, arg, enhanced_request, lookup, sent >>
    /\ UNCHANGED counters
    /\ UNCHANGED << environment, calls, llm >>
    /\ UNCHANGED << weather_result, package_reads, http >>

\* The generation call ends; lines 118-126 turn the completion into the
\* output, and a provider failure passes through.
ProviderReply(r) ==
    /\ pc = "generate_wait"
    /\ agent \in {"insight", "base"}
    /\ reply' = r
    /\ IF r.kind = "error"
       THEN Fail(Raised(r.exc), <<>>)
       ELSE LET result == ParseCompletion(r.content)
            IN  IF result.kind = "raised"
                THEN Fail(result, IF IsEmptyContent(r.content)
                                  THEN <<"extract">> ELSE <<"extract", "validate">>)
                ELSE /\ pc' = "done"
                     /\ outcome' = result
                     /\ trace' = trace \o <<"extract", "validate">>
    /\ UNCHANGED << agent, arg, enhanced_request, lookup, sent >>
    /\ UNCHANGED counters
    /\ UNCHANGED << environment, calls, llm >>
    /\ UNCHANGED << weather_result, package_reads, http >>

-----------------------------------------------------------------------------
(* InsightAgent.run: app/agents/insight_agent.py lines 31-83               *)

\* _generate_response(user_prompt=.., system_prompt=.., max_tokens=1000,
\* temperature=0.7): one generation call with the system and the user
\* message; the text comes back, a provider failure passes through.
generate_response(user_prompt, system_prompt) ==
    [messages |-> << [role |-> "system", content |-> system_prompt],
                     [role |-> "user", content |-> user_prompt] >>,
     max_tokens |-> 1000, temperature_tenths |-> 7]

\* run up to its suspension in the generation call.
Run(its, prefs) ==
    /\ pc = "idle"
    /\ executes < MaxExecutes
    /\ executes' = executes + 1
    /\ agent' = "run"
    /\ arg' = Object("arguments", its, prefs, None)
    /\ IF its = <<>>
       THEN /\ Fail(Raised("AgentValidationError"), <<"validate_input">>)
            /\ UNCHANGED << sent, generate_calls >>
       ELSE /\ pc' = "generate_wait"
            /\ sent' = Some(generate_response(ComparisonPrompt(its, prefs), SystemPrompt))
            /\ generate_calls' = generate_calls + 1
            /\ trace' = <<"validate_input", "render", "generate">>
            /\ UNCHANGED outcome
    /\ UNCHANGED << enhanced_request, lookup, reply >>
    /\ UNCHANGED returned
    /\ UNCHANGED << environment, calls, llm >>
    /\ UNCHANGED << weather_result, package_reads, http >>

\* The generation call of run ends: the text is parsed into one insight per
\* itinerary, or the provider's failure passes through.
RunReply(kind, exc, text) ==
    /\ pc = "generate_wait"
    /\ agent = "run"
    /\ reply' = [kind |-> kind, exc |-> exc, content |-> text]
    /\ IF kind = "error"
       THEN Fail(Raised(exc), <<>>)
       ELSE LET insights == parse_insights_response(text, Len(arg.itineraries))
                result == ZipInsights(arg.itineraries, insights)
            IN  IF result.kind = "raised"
                THEN Fail(result, <<"parse">>)
                ELSE /\ pc' = "done"
                     /\ outcome' = result
                     /\ trace' = trace \o <<"parse">>
    /\ UNCHANGED << agent, arg, enhanced_request, lookup, sent >>
    /\ UNCHANGED counters
    /\ UNCHANGED << environment, calls, llm >>
    /\ UNCHANGED << weather_result, package_reads, http >>

-----------------------------------------------------------------------------
(* POST /itineraries: app/api/v1/endpoints/insight.py lines 24-53          *)

\* The handler builds the InsightRequest from the body (lines 37-39) and
\* calls the agent's execute with it; a refused construction is answered
\* right away by the except clauses.
PostItineraries(its, prefs) ==
    /\ pc = "idle"
    /\ executes < MaxExecutes
    /\ executes' = executes + 1
    /\ LET r == InsightRequest(its, prefs, None)
       IN  IF r.kind = "raised"
           THEN /\ pc' = "failed"
                /\ outcome' = r
                /\ agent' = "construct"
                /\ arg' = Object("arguments", its, prefs, None)
                /\ http' = HTTPException(r.exc, "At least one itinerary is required")
           ELSE /\ pc' = "ready"
                /\ arg' = r.value
                /\ UNCHANGED << agent, outcome, http >>
    /\ trace' = <<"post">>
    /\ UNCHANGED << enhanced_request, lookup, sent, reply >>
    /\ UNCHANGED << returned, generate_calls >>
    /\ UNCHANGED << environment, calls, llm >>
    /\ UNCHANGED << weather_result, package_reads >>

\* execute is over: line 44 answers with the insights, lines 46-53 turn an
\* exception into an HTTP error.
EndpointReturn ==
    /\ pc \in {"done", "failed"}
    /\ FromEndpoint
    /\ http = NoResponse
    /\ http' = IF outcome.kind = "returned"
               THEN HttpResponse(200, <<>>, outcome.value.itinerary_insights)
               ELSE HTTPException(outcome.exc, outcome.exc)
    /\ UNCHANGED << pc, agent, arg, enhanced_request, lookup, sent, reply, outcome, trace >>
    /\ UNCHANGED counters
    /\ UNCHANGED << environment, calls, llm >>
    /\ UNCHANGED << weather_result, package_reads >>

-----------------------------------------------------------------------------

\* The call is over: its result is with the caller, who may call again.
Finish ==
    /\ pc \in {"done", "failed"}
    /\ FromEndpoint => http # NoResponse
    /\ pc' = "idle"
    /\ returned' = IF pc = "done" THEN returned + 1 ELSE returned
    /\ agent' = "none"
    /\ arg' = NoObject
    /\ enhanced_request' = NoObject
    /\ lookup' = None
    /\ sent' = None
    /\ reply' = NoReply
    /\ outcome' = NoOutcome
    /\ trace' = <<>>
    /\ UNCHANGED << executes, generate_calls >>
    /\ UNCHANGED << environment, calls, llm >>
    /\ weather_result' = NoOutcome
    /\ http' = NoResponse
    /\ UNCHANGED package_reads

Next ==
    \/ \E its \in ItineraryLists, prefs \in PreferenceLists, w \in WeatherOptions :
          ConstructRequest(its, prefs, w)
    \/ \E o \in ForeignObjects : TakeForeignObject(o)
    \/ InsightExecute
    \/ \E r \in WeatherReplies : WeatherReply(r)
    \/ BaseExecute
    \/ TypeCheck
    \/ Load
    \/ Generate
    \/ \E r \in ProviderReplies : ProviderReply(r)
    \/ \E its \in ItineraryLists, prefs \in PreferenceLists : Run(its, prefs)
    \/ \E e \in ProviderErrors : RunReply("error", e, <<>>)
    \/ \E t \in TextReplies : RunReply("text", "", t)
    \/ \E its \in ItineraryLists, prefs \in PreferenceLists : PostItineraries(its, prefs)
    \/ EndpointReturn
    \/ Finish

Spec == Init /\ [][Next]_vars

-----------------------------------------------------------------------------
(* Concurrent calls of InsightAgent.execute on one agent.  A call runs     *)
(* without interruption between its suspension points, the weather lookup  *)
(* and the generation call; the agent's weather service and the package    *)
(* files are shared by the calls.                                          *)

\* The request kept in one slot on the agent, which the first caller fills.
CallerRequestShared(i) ==
    IF calls[1].pc # "idle" THEN calls[1].arg ELSE calls[i].arg

\* input_data of call i: the parameter of its own execute frame.
CallerRequest(i) == calls[i].arg

ConcurrentInit ==
    /\ pc = "idle"
    /\ agent = "none"
    /\ arg = NoObject
    /\ enhanced_request = NoObject
    /\ weather_service \in WeatherServices
    /\ pkg = Package(GoodConfig, "ok", "ok")
    /\ lookup = None
    /\ sent = None
    /\ reply = NoReply
    /\ outcome = NoOutcome
    /\ trace = <<>>
    /\ executes = 0
    /\ returned = 0
    /\ generate_calls = 0
    /\ weather_result = NoOutcome
    /\ package_reads = 0
    /\ http = NoResponse
    /\ calls = [i \in Callers |-> NoCall]
    /\ llm = NoProvider

\* agent.py 70-76 and, when no lookup is awaited, on to the generation call.
CallExecute(i, request) ==
    /\ calls[i].pc = "idle"
    /\ LET c == [calls[i] EXCEPT !.arg = request]
       IN  calls' = [calls EXCEPT ![i] =
              IF NeedsWeather(request) /\ ~IsNone(weather_service)
              THEN [c EXCEPT !.pc = "weather_wait"]
              ELSE IF NeedsWeather(request)
              THEN Proceed(c, pkg, EnhancedRequest(request, None).value)
              ELSE Proceed(c, pkg, request)]
    /\ UNCHANGED singleCall
    /\ UNCHANGED << environment, llm >>

\* The weather lookup of call i ends: agent.py 66-87 and on to the generation
\* call.
CallWeatherReply(i, r) ==
    /\ calls[i].pc = "weather_wait"
    /\ LET c == [calls[i] EXCEPT !.weather_reply = Some(r)]
           got == WeatherOrNone(get_current_weather(weather_service[1], r))
       IN  calls' = [calls EXCEPT ![i] =
              IF got.kind = "raised"
              THEN [c EXCEPT !.pc = "failed", !.outcome = got]
              ELSE Proceed(c, pkg, EnhancedRequest(CallerRequest(i), got.value).value)]
    /\ UNCHANGED singleCall
    /\ UNCHANGED << environment, llm >>

\* The generation call of call i ends: base.py 118-126.
CallProviderReply(i, r) ==
    /\ calls[i].pc = "generate_wait"
    /\ LET result == IF r.kind = "error" THEN Raised(r.exc)
                     ELSE ParseCompletion(r.content)
       IN  calls' = [calls EXCEPT ![i] =
              [calls[i] EXCEPT !.reply = r, !.outcome = result,
                               !.pc = IF result.kind = "raised" THEN "failed" ELSE "done"]]
    /\ UNCHANGED singleCall
    /\ UNCHANGED << environment, llm >>

ConcurrentNext ==
    \/ \E i \in Callers, request \in ConcurrentRequests : CallExecute(i, request)
    \/ \E i \in Callers, r \in ConcurrentWeatherReplies : CallWeatherReply(i, r)
    \/ \E i \in Callers, r \in ConcurrentProviderReplies : CallProviderReply(i, r)

ConcurrentSpec == ConcurrentInit /\ [][ConcurrentNext]_vars

-----------------------------------------------------------------------------
(* Creating an LLM provider and generating with it                         *)

\* LLMProviderFactory.create_provider(provider_name, api_key=.., model=..)
CreateProvider(provider_name, api_key) ==
    /\ llm.pc = "none"
    /\ LET made == create_provider(provider_name, api_key, "llama-3.3-70b-versatile")
       IN  llm' = [llm EXCEPT !.created = made,
                              !.request = Some([provider_name |-> provider_name,
                                                api_key |-> api_key]),
                              !.pc = IF made.kind = "raised" THEN "refused" ELSE "created",
                              !.instance = IF made.kind = "raised" THEN None
                                           ELSE Some(made.value)]
    /\ UNCHANGED << singleCall, environment, calls >>

\* create_llm_from_config()
CreateLlmFromConfig(settings) ==
    /\ llm.pc = "none"
    /\ LET made == create_llm_from_config(settings)
       IN  llm' = [llm EXCEPT !.created = made,
                              !.request = Some(settings),
                              !.pc = IF made.kind = "raised" THEN "refused" ELSE "created",
                              !.instance = IF made.kind = "raised" THEN None
                                           ELSE Some(made.value)]
    /\ UNCHANGED << singleCall, environment, calls >>

\* GroqProvider.generate, or generate_stream, up to the API call.
GroqGenerate(stream, messages, max_tokens, temperature) ==
    /\ llm.pc = "created"
    /\ llm.instance[1].provider = "groq"
    /\ llm' = [llm EXCEPT
                 !.pc = "api_wait",
                 !.request = Some([stream |-> stream, messages |-> messages,
                                   max_tokens |-> max_tokens, temperature |-> temperature]),
                 !.params = Some(request_params(llm.instance[1], stream, messages,
                                                max_tokens, temperature))]
    /\ UNCHANGED << singleCall, environment, calls >>

\* The API call ends: the text is returned, or the exception is classified.
GroqApiReply(r) ==
    /\ llm.pc = "api_wait"
    /\ LET result == GenerateResult(r)
       IN  llm' = [llm EXCEPT !.api_reply = Some(r), !.result = result,
                              !.pc = IF result.kind = "raised" THEN "raised" ELSE "returned"]
    /\ UNCHANGED << singleCall, environment, calls >>

ProviderInit ==
    /\ pc = "idle"
    /\ agent = "none"
    /\ arg = NoObject
    /\ enhanced_request = NoObject
    /\ weather_service = None
    /\ pkg = Package(GoodConfig, "ok", "ok")
    /\ lookup = None
    /\ sent = None
    /\ reply = NoReply
    /\ outcome = NoOutcome
    /\ trace = <<>>
    /\ executes = 0
    /\ returned = 0
    /\ generate_calls = 0
    /\ weather_result = NoOutcome
    /\ package_reads = 0
    /\ http = NoResponse
    /\ calls = [i \in Callers |-> NoCall]
    /\ llm = NoProvider

ProviderNext ==
    \/ \E n \in ProviderNames, k \in {None, Some("secret-key")} : CreateProvider(n, k)
    \/ \E settings \in SettingsValues : CreateLlmFromConfig(settings)
    \/ \E stream \in BOOLEAN, messages \in ChatMessages, max_tokens \in MaxTokensValues,
          temperature \in TemperatureValues :
          GroqGenerate(stream, messages, max_tokens, temperature)
    \/ \E r \in ApiReplies : GroqApiReply(r)

ProviderSpec == ProviderInit /\ [][ProviderNext]_vars

-----------------------------------------------------------------------------
(* Properties                                                              *)

\* How often step x occurs in the steps of the current call.
Count(steps, x) == Cardinality({i \in DOMAIN steps : steps[i] = x})

LastStep == IF trace = <<>> THEN "" ELSE trace[Len(trace)]

ExecuteIsOver == pc \in {"done", "failed"} /\ agent \in {"insight", "base"}

\* C1: an empty itineraries list is refused with a validation error, by the
\* InsightRequest constructor and by run alike, and the call that was refused
\* issues no generation call; so no InsightRequest with an empty list ever
\* reaches execute.
C1_EmptyItinerariesRejected ==
    /\ (arg.type = "arguments" /\ arg.itineraries = <<>>) =>
          /\ pc = "failed"
          /\ outcome.kind = "raised"
          /\ outcome.exc = (IF agent = "run" THEN "AgentValidationError" ELSE "ValidationError")
          /\ IsInstance(outcome.exc, "ValueError") \/ IsInstance(outcome.exc, "AgentError")
          /\ sent = None
          /\ Count(trace, "generate") = 0
    /\ arg.type = "InsightRequest" => arg.itineraries # <<>>
    /\ enhanced_request.type = "InsightRequest" => enhanced_request.itineraries # <<>>

\* C1 witness: the constructor has refused an empty list, and no generation
\* call has been issued at all.
C1_Witness ==
    /\ pc = "failed"
    /\ agent = "construct"
    /\ arg.itineraries = <<>>
    /\ outcome.exc = "ValidationError"
    /\ generate_calls = 0

\* C4: an execute that returns has issued exactly one generation call, with
\* the system message and then the user message, their contents the two
\* templates rendered over the request's fields; and when every call so far
\* returned, there were as many generation calls as calls.
C4_OneCallTwoMessages ==
    /\ (pc = "done" /\ agent \in {"insight", "base"}) =>
          /\ Count(trace, "generate") = 1
          /\ Len(sent) = 1
          /\ Len(sent[1].messages) = 2
          /\ sent[1].messages[1] =
                [role |-> "system",
                 content |-> Render("system.j2", model_dump(enhanced_request))]
          /\ sent[1].messages[2] =
                [role |-> "user",
                 content |-> Render("user.j2", model_dump(enhanced_request))]
    /\ (pc = "idle" /\ returned = executes) => generate_calls = executes

\* C4 witness: a second execute in a row has returned, with two generation
\* calls issued in all.
C4_Witness ==
    /\ pc = "done"
    /\ agent = "insight"
    /\ returned = 1
    /\ executes = 2
    /\ generate_calls = 2

\* C5: a call issues at most one generation call, whatever its outcome: the
\* whole itineraries list goes into that one call, and a call that failed
\* after the provider answered has still issued just one.
C5_AtMostOneGenerationCall ==
    /\ Count(trace, "generate") <= 1
    /\ generate_calls <= executes
    /\ Len(sent) = 1 =>
          /\ Count(trace, "generate") = 1
          /\ IF agent = "run"
             THEN sent[1].messages[2].content.variables[1] = arg.itineraries
             ELSE sent[1].messages[2].content.variables.itineraries
                     = enhanced_request.itineraries
    /\ (pc = "failed" /\ reply.kind # "none") => Count(trace, "generate") = 1

\* C5 witness: the provider failed in an execute over two itineraries, and
\* the call ended with the one generation call it had issued.
C5_Witness ==
    /\ pc = "failed"
    /\ agent = "insight"
    /\ reply.kind = "error"
    /\ Len(enhanced_request.itineraries) = 2
    /\ Count(trace, "generate") = 1

\* C2: an execute whose argument is no instance of the input model ends with
\* the validation error kind, AgentValidationError, and has issued no
\* generation call.
C2_WrongTypeIsValidationError ==
    (ExecuteIsOver /\ ~IsInputModel(arg)) =>
        /\ pc = "failed"
        /\ IsInstance(outcome.exc, "AgentValidationError")
        /\ sent = None
        /\ Count(trace, "generate") = 0

\* C3: no failure of the weather lookup ends the insight agent's execute:
\* once the lookup is over, the request goes on with weather_conditions
\* unset, whatever the lookup met.
C3_WeatherFailureAbsorbed ==
    (agent = "insight" /\ Count(trace, "weather_result") = 1) =>
        /\ LastStep = "weather_result" => pc = "type_check"
        /\ pc = "type_check" =>
              \/ enhanced_request.weather_conditions = None
              \/ enhanced_request.weather_conditions = Some(FetchedWeather)

\* The place of a step in the pipeline as stated: type check, enrichment,
\* prompt rendering, generation call, extraction, validation.
StepRank(s) ==
    CASE s = "type_check"                                   -> 1
      [] s \in {"enrich", "weather_lookup", "weather_result"} -> 2
      [] s \in {"load", "render"}                           -> 3
      [] s = "generate"                                     -> 4
      [] s = "extract"                                      -> 5
      [] s = "validate"                                     -> 6
      [] OTHER                                              -> 0

\* C6: the steps of an execute come in the order type check, enrichment,
\* rendering, generation call, extraction, validation, each at most once;
\* and the generation call is issued with no weather lookup pending.
C6_LinearPipeline ==
    agent = "insight" =>
        /\ \A i, j \in DOMAIN trace :
              i < j => StepRank(trace[i]) <= StepRank(trace[j])
        /\ \A s \in {"type_check", "enrich", "weather_lookup", "weather_result",
                     "render", "generate", "extract", "validate"} :
              Count(trace, s) <= 1
        /\ Count(trace, "generate") = 1 =>
              Count(trace, "weather_lookup") = Count(trace, "weather_result")

\* C7: a response that is the document d in a json fence or a plain fence,
\* with or without whitespace around it, is extracted to exactly d, and the
\* execute ends as it does for d alone.
C7_FencedResponseParses ==
    \A d \in Documents :
        (/\ ExecuteIsOver
         /\ reply.kind = "completion"
         /\ reply.content \in { StrContent(FencedJson(d)), StrContent(FencedPlain(d)),
                                StrContent(PaddedFencedJson(d)) }) =>
            /\ ExtractJson(reply.content) = Plain(d)
            /\ outcome = ParseCompletion(StrContent(Plain(d)))

\* C8: a completion with no content, an empty string, or a string with
\* nothing but whitespace and fences ends the execute with
\* AgentProcessingError, and nothing is returned.
C8_EmptyContentIsProcessingError ==
    (/\ ExecuteIsOver
     /\ reply.kind = "completion"
     /\ \/ reply.content.form = "none"
        \/ /\ reply.content.form = "str"
           /\ \A i \in DOMAIN reply.content.text :
                 \/ IsSpace(reply.content.text[i])
                 \/ reply.content.text[i] \in {FENCE, TAG}) =>
        /\ pc = "failed"
        /\ outcome.kind = "raised"
        /\ IsInstance(outcome.exc, "AgentProcessingError")

\* C9: a completion that is no JSON, or JSON of another shape than the
\* output model, ends the execute with AgentProcessingError carrying the
\* parse or validation failure as its cause, and nothing is returned.
C9_InvalidResponseIsWrapped ==
    (/\ ExecuteIsOver
     /\ reply.kind = "completion"
     /\ reply.content \in { StrContent(Plain(NotJson)), StrContent(Plain(OtherObject)) }) =>
        /\ pc = "failed"
        /\ outcome.kind = "raised"
        /\ outcome.exc = "AgentProcessingError"
        /\ outcome.cause \in {"ValidationError", "JSONDecodeError"}

\* C10: a response returned by the insight agent's execute has as many
\* itinerary_insights as the request has itineraries.
C10_InsightCountMatches ==
    (pc = "done" /\ agent = "insight") =>
        Len(outcome.value.itinerary_insights) = Len(enhanced_request.itineraries)

\* C11: when the provider answers a request of N itineraries with a
\* well-formed document of N insights, execute returns N insights, the i-th
\* of them the i-th of the document, leg insights in their order included.
C11_InsightsInResponseOrder ==
    (/\ pc = "done"
     /\ agent \in {"insight", "base"}
     /\ Len(ExtractJson(reply.content)) = 1
     /\ Len(ExtractJson(reply.content)[1]) - 1 = Len(enhanced_request.itineraries)) =>
        LET names == Tail(ExtractJson(reply.content)[1])
            insights == outcome.value.itinerary_insights
        IN  /\ outcome.kind = "returned"
            /\ Len(insights) = Len(enhanced_request.itineraries)
            /\ \A i \in 1..Len(names) :
                  /\ insights[i].ai_insight = names[i]
                  /\ insights[i] = InsightValue(names[i])

\* C11 witness: two itineraries, and the document's insights B (with its two
\* leg insights) and then A have come back in that order.
C11_Witness ==
    /\ pc = "done"
    /\ agent = "insight"
    /\ Len(enhanced_request.itineraries) = 2
    /\ reply.content = StrContent(Plain(Doc(<<"B", "A">>)))
    /\ outcome.value.itinerary_insights[1].ai_insight = "B"
    /\ Len(outcome.value.itinerary_insights[1].leg_insights) = 2
    /\ outcome.value.itinerary_insights[2].ai_insight = "A"

\* C12: a failure of the generation provider ends execute, and run, with
\* that very exception: an LLMError of the same subclass, in no way a
\* validation or processing error, and nothing is returned.
C12_ProviderErrorPropagates ==
    reply.kind = "error" =>
        /\ pc = "failed"
        /\ outcome.kind = "raised"
        /\ outcome.exc = reply.exc
        /\ outcome.exc \in ProviderErrors
        /\ IsInstance(outcome.exc, "LLMError")
        /\ ~IsInstance(outcome.exc, "AgentError")
        /\ ~IsInstance(outcome.exc, "ValueError")

\* C12 witness: the provider refused for its rate limit, and execute has
\* ended with LLMRateLimitError.
C12_Witness ==
    /\ pc = "failed"
    /\ agent = "insight"
    /\ reply.kind = "error"
    /\ reply.exc = "LLMRateLimitError"
    /\ outcome.exc = "LLMRateLimitError"
    /\ Count(trace, "generate") = 1

\* C13: no step of a call changes the request the caller passed: from the
\* call's start to its return or failure the caller's object keeps its
\* itineraries, user_preferences and weather_conditions, and fetched weather
\* lives in the newly built request only.
C13_RequestNotMutated ==
    [][ /\ pc \in {"ready", "weather_wait", "type_check", "load", "render",
                   "generate_wait"} => arg' = arg
        /\ (pc' = "type_check" /\ pc = "weather_wait") =>
              /\ arg'.weather_conditions = None
              /\ enhanced_request'.itineraries = arg.itineraries
              /\ enhanced_request'.user_preferences = arg.user_preferences ]_vars

\* C13 witness: execute has returned after a successful weather lookup; the
\* caller's request is still without weather, the enhanced one carries it.
C13_Witness ==
    /\ pc = "done"
    /\ agent = "insight"
    /\ arg.type = "InsightRequest"
    /\ arg.weather_conditions = None
    /\ enhanced_request.weather_conditions = Some(FetchedWeather)

\* C14: execute looks the weather up only for a request without
\* weather_conditions, and then at most once; with weather_conditions
\* supplied there is no lookup, and the request that is type-checked and
\* rendered is the caller's own.
C14_LookupOnlyWhenUnset ==
    agent = "insight" =>
        /\ Count(trace, "weather_lookup") <= 1
        /\ Count(trace, "weather_lookup") = 1 => arg.weather_conditions = None
        /\ (arg.type # "str" /\ arg.weather_conditions # None) =>
              /\ Count(trace, "weather_lookup") = 0
              /\ lookup = None
              /\ enhanced_request = arg
              /\ Len(sent) = 1 =>
                    sent[1].messages[2].content = Render("user.j2", model_dump(arg))

\* C14 witness: a request with weather supplied has gone through execute of
\* an agent that has a weather service, with no lookup made.
C14_Witness ==
    /\ pc = "done"
    /\ agent = "insight"
    /\ weather_service # None
    /\ arg.weather_conditions = Some(SuppliedWeather)
    /\ Count(trace, "weather_lookup") = 0
    /\ Len(sent) = 1
    /\ sent[1].messages[2].content.variables.weather_conditions = Some(SuppliedWeather)

\* C15: the weather is looked up at the coordinates of the from_place of the
\* first leg of the first itinerary, or at latitude 60.1695, longitude
\* 24.9354 when the first itinerary has no legs; no other leg or itinerary
\* has a say.
C15_LookupCoordinates ==
    (agent = "insight" /\ Len(lookup) = 1) =>
        lookup[1] = IF arg.itineraries[1].legs = <<>>
                    THEN [latitude |-> 601695, longitude |-> 249354]
                    ELSE arg.itineraries[1].legs[1].from_place.coordinates

\* C15 witness: the first itinerary starts at Helsinki and goes on from
\* Espoo, the second has no legs, and the lookup is for Helsinki.
C15_Witness ==
    /\ agent = "insight"
    /\ pc = "weather_wait"
    /\ Len(arg.itineraries) = 2
    /\ Len(arg.itineraries[1].legs) = 2
    /\ arg.itineraries[1].legs[2].from_place.coordinates = EspooCentral
    /\ arg.itineraries[2].legs = <<>>
    /\ lookup = Some(HelsinkiCentral)

\* C16: a POST whose itineraries list is empty is answered with status 400
\* and a detail that holds "At least one itinerary is required", and no
\* generation call is issued.
C16_EmptyListIsBadRequest ==
    (FromEndpoint /\ arg.type = "arguments" /\ arg.itineraries = <<>>) =>
        /\ http.status = 400
        /\ http.detail[2] = "At least one itinerary is required"
        /\ sent = None
        /\ Count(trace, "generate") = 0

\* C17: the endpoint answers different exceptions coming out of execute
\* with different status codes: whatever exception ended this request, any
\* other one would have been answered with another status.
C17_DistinctStatusPerKind ==
    (FromEndpoint /\ http # NoResponse /\ outcome.kind = "raised") =>
        \A e \in ProviderErrors \cup {"ValidationError", "ValueError"} :
            e # outcome.exc => HTTPException(e, e).status # http.status

\* C18: get_current_weather either returns a WeatherCondition or raises
\* WeatherServiceUnavailableError, whatever the HTTP exchange came to.
C18_WeatherUnavailableOnly ==
    weather_result.kind # "none" =>
        \/ weather_result.kind = "returned"
        \/ /\ weather_result.kind = "raised"
           /\ weather_result.exc = "WeatherServiceUnavailableError"

\* C19: the agent's templates are loaded once and reused: however many
\* executes run, the package's files are read and compiled at most once.
C19_TemplatesLoadedOnce == package_reads <= 1

\* C20: with a file of the agent package missing, a configuration that is
\* no JSON, a template that does not compile, no "model" key or a key
\* outside the allowed set, execute fails at the load, with the error of
\* the load as it was raised, before any prompt is rendered and with no
\* generation call.
C20_ConfigErrorBeforeRender ==
    (/\ agent \in {"insight", "base"}
     /\ \/ pkg.config.state # "ok"
        \/ pkg.system # "ok"
        \/ pkg.user # "ok"
        \/ "model" \notin pkg.config.keys
        \/ pkg.config.keys \ ALLOWED_CONFIG_KEYS # {}) =>
        /\ Count(trace, "render") = 0
        /\ Count(trace, "generate") = 0
        /\ sent = None
        /\ pc \notin {"render", "generate_wait", "done"}
        /\ Count(trace, "load") = 1 =>
              /\ pc = "failed"
              /\ LastStep = "load"
              /\ outcome.kind = "raised"
              /\ outcome.cause = ""
              /\ outcome.exc =
                    IF "missing" \in {pkg.config.state, pkg.system, pkg.user}
                    THEN "FileNotFoundError" ELSE "ValueError"

\* C20 witness: the configuration has a key outside the allowed set, and
\* execute has failed at the load with ValueError, no generation call issued.
C20_Witness ==
    /\ pc = "failed"
    /\ agent = "insight"
    /\ pkg.config = ConfigFile("ok", {"model", "seed"})
    /\ LastStep = "load"
    /\ outcome.exc = "ValueError"
    /\ generate_calls = 0

\* The request a call sends to generation when it runs alone: its own
\* request, with the weather its own lookup came to when it made one.
OwnEnhancedRequest(c) ==
    IF ~NeedsWeather(c.arg) THEN c.arg
    ELSE IF IsNone(weather_service) THEN EnhancedRequest(c.arg, None).value
    ELSE EnhancedRequest(c.arg,
            WeatherOrNone(get_current_weather(weather_service[1],
                                              c.weather_reply[1])).value).value

\* C21: calls of execute in flight together do not touch each other: what
\* a call sends and what it ends with follow from its own request, its own
\* weather reply and its own provider reply, a step of one call leaves every
\* other call as it was, and a call's request stays what its caller passed.
C21_ConcurrentCallsIndependent ==
    /\ [](\A i \in Callers :
            LET c == calls[i]
            IN  /\ Len(c.sent) = 1 =>
                      /\ c.enhanced_request = OwnEnhancedRequest(c)
                      /\ c.sent[1].messages = Messages(OwnEnhancedRequest(c))
                /\ c.pc = "done" => c.outcome = ParseCompletion(c.reply.content)
                /\ (c.pc = "failed" /\ c.reply.kind = "error") =>
                      c.outcome = Raised(c.reply.exc))
    /\ [][\A i, j \in Callers :
             /\ (i # j /\ calls'[i] # calls[i]) => calls'[j] = calls[j]
             /\ calls[i].pc # "idle" => calls'[i].arg = calls[i].arg]_vars

\* C21 witness: two calls with different requests are both waiting for the
\* provider, the first of them after a weather lookup that succeeded.
C21_Witness ==
    /\ calls[1].pc = "generate_wait"
    /\ calls[2].pc = "generate_wait"
    /\ calls[1].arg # calls[2].arg
    /\ calls[1].enhanced_request.weather_conditions = Some(FetchedWeather)
    /\ calls[2].enhanced_request.weather_conditions = None
    /\ calls[1].sent # calls[2].sent

\* C22: an exception of the API call leaves generate and generate_stream as
\* exactly one typed LLM error with the exception as its cause: a text with
\* rate_limit or 429 gives LLMRateLimitError; otherwise one with a validation,
\* bad request or authentication pattern gives LLMValidationError; every
\* other one gives LLMConnectionError.
C22_ErrorsClassified ==
    (Len(llm.api_reply) = 1 /\ llm.api_reply[1].kind = "exception") =>
        LET e == llm.api_reply[1]
        IN  /\ llm.pc = "raised"
            /\ llm.result.kind = "raised"
            /\ llm.result.exc \in ProviderErrors
            /\ IsInstance(llm.result.exc, "LLMError")
            /\ llm.result.exc # e.cls
            /\ llm.result.cause = e.cls
            /\ llm.result.exc =
                  IF e.patterns \cap {"rate_limit", "429"} # {}
                  THEN "LLMRateLimitError"
                  ELSE IF e.patterns \cap {"validation", "invalid", "400", "bad request",
                                           "unauthorized", "401", "api key"} # {}
                  THEN "LLMValidationError"
                  ELSE "LLMConnectionError"

\* C22 witness: a streamed call failed with a connection error whose text
\* holds 429 as well, and the rate-limit rule, the first, has classified it.
C22_Witness ==
    /\ llm.pc = "raised"
    /\ llm.request[1].stream
    /\ llm.api_reply[1].cls = "APIConnectionError"
    /\ llm.api_reply[1].patterns = {"connection", "429"}
    /\ llm.result.exc = "LLMRateLimitError"

\* The positions of the marker lines of a response, and the k-th of them.
MarkerPositions(ls) == {p \in DOMAIN ls : ls[p][1] = "marker"}

NthMarker(ls, k) ==
    CHOOSE p \in MarkerPositions(ls) :
        Cardinality({q \in MarkerPositions(ls) : q <= p}) = k

IsNotBlank(l) == l[1] # "blank"

\* The non-blank lines, stripped, between the k-th marker line and the next
\* one (or the end of the response); none when there is no k-th marker.
SectionBody(ls, k) ==
    IF k > Cardinality(MarkerPositions(ls)) THEN <<>>
    ELSE LET from == NthMarker(ls, k)
             to == IF k < Cardinality(MarkerPositions(ls))
                   THEN NthMarker(ls, k + 1) ELSE Len(ls) + 1
             kept == SelectSeq(SubSeq(ls, from + 1, to - 1), IsNotBlank)
         IN  [j \in 1..Len(kept) |-> <<kept[j][1], kept[j][2], "">>]

\* A response of exactly n sections, each a marker line followed by at least
\* one non-blank line, with no text before the first marker.
WellFormedSections(ls, n) ==
    /\ Cardinality(MarkerPositions(ls)) = n
    /\ \A p \in DOMAIN ls :
          (\A q \in MarkerPositions(ls) : p < q) => ls[p][1] = "blank"
    /\ \A k \in 1..n : SectionBody(ls, k) # <<>>

ParsedSectionCount(ls) ==
    (IF \E p \in DOMAIN ls :
           /\ ls[p][1] = "text"
           /\ \A q \in MarkerPositions(ls) : p < q
     THEN 1 ELSE 0)
    + Cardinality({k \in 1..Cardinality(MarkerPositions(ls)) : SectionBody(ls, k) # <<>>})

\* C24: when the number of parsed sections differs from the number of
\* itineraries, every insight is the whole response, stripped.
C24_FallbackRepeatsResponse ==
    (/\ agent = "run"
     /\ reply.kind = "text"
     /\ ParsedSectionCount(reply.content) # Len(arg.itineraries)) =>
        /\ pc = "done"
        /\ Len(outcome.value) = Len(arg.itineraries)
        /\ \A k \in 1..Len(arg.itineraries) :
              outcome.value[k].ai_insight = StripText(reply.content)

\* C24 witness: one unstructured line with blanks around it, two
\* itineraries, and both insights are that line without the blanks.
C24_Witness ==
    /\ agent = "run"
    /\ pc = "done"
    /\ Len(arg.itineraries) = 2
    /\ reply.content = <<Line("text", "General insight.", "sp")>>
    /\ outcome.value[1].ai_insight = <<Line("text", "General insight.", "")>>
    /\ outcome.value[2].ai_insight = <<Line("text", "General insight.", "")>>

\* C25: run returns one ItineraryWithInsight per itinerary, in the order of
\* the itineraries: the i-th has the legs of the i-th itinerary in their
\* order, each without an insight of its own, and the i-th parsed insight.
C25_OneResultPerItinerary ==
    (agent = "run" /\ pc = "done") =>
        LET insights == parse_insights_response(reply.content, Len(arg.itineraries))
        IN  /\ outcome.kind = "returned"
            /\ Len(outcome.value) = Len(arg.itineraries)
            /\ \A k \in 1..Len(arg.itineraries) :
                  /\ outcome.value[k].ai_insight = insights[k]
                  /\ Len(outcome.value[k].legs) = Len(arg.itineraries[k].legs)
                  /\ \A j \in 1..Len(arg.itineraries[k].legs) :
                        /\ outcome.value[k].legs[j].from_place
                              = arg.itineraries[k].legs[j].from_place
                        /\ outcome.value[k].legs[j].ai_insight = None

\* C25 witness: an itinerary without legs and one of two legs, and a
\* response of two sections: each result has its itinerary's legs and its
\* section's insight.
C25_Witness ==
    /\ agent = "run"
    /\ pc = "done"
    /\ Len(arg.itineraries) = 2
    /\ arg.itineraries[1].legs = <<>>
    /\ Len(arg.itineraries[2].legs) = 2
    /\ Len(outcome.value[2].legs) = 2
    /\ Len(outcome.value[1].ai_insight) = 2
    /\ outcome.value[2].ai_insight = <<Line("text", "Scenic tram route.", "")>>

C27_ParseLengthMatches ==
    (/\ agent = "run"
     /\ reply.kind = "text"
     /\ pc \in {"done", "failed"}
     /\ Len(arg.itineraries) >= 1) =>
        /\ Len(parse_insights_response(reply.content, Len(arg.itineraries)))
              = Len(arg.itineraries)
        /\ pc = "done"
        /\ outcome.kind = "returned"
        /\ Len(outcome.value) = Len(arg.itineraries)

\* C27 witness: two itineraries and a response whose lines close another
\* number of sections than two; run still returned two results.
C27_Witness ==
    /\ agent = "run"
    /\ reply.kind = "text"
    /\ pc = "done"
    /\ Len(arg.itineraries) = 2
    /\ Len(ParseLines(reply.content, <<>>, <<>>)) # 2
    /\ Len(outcome.value) = 2

\* C28: whenever the parse does not take the fallback, every line of the
\* i-th insight is a line between the i-th marker line and the next marker
\* line of the response.
C28_InsightIsItsSection ==
    (/\ agent = "run"
     /\ reply.kind = "text"
     /\ pc = "done"
     /\ Len(ParseLines(reply.content, <<>>, <<>>)) = Len(arg.itineraries)) =>
        \A k \in 1..Len(arg.itineraries) :
            \A j \in DOMAIN outcome.value[k].ai_insight :
                \E m \in DOMAIN SectionBody(reply.content, k) :
                    outcome.value[k].ai_insight[j] = SectionBody(reply.content, k)[m]

\* C29: generate hands the caller's max_tokens and temperature to the API
\* as they are whenever they are not None, zero included; 1000 and 0.7 are
\* sent only when the argument is None or left out.
C29_ParametersForwarded ==
    Len(llm.params) = 1 =>
        /\ llm.params[1].max_tokens =
              IF IsNone(llm.request[1].max_tokens) THEN 1000
              ELSE llm.request[1].max_tokens[1]
        /\ llm.params[1].temperature =
              IF IsNone(llm.request[1].temperature) THEN 7
              ELSE llm.request[1].temperature[1]

\* C30: a provider name outside the registry, a configured provider that is
\* not supported, or a missing key of the configured provider ends the
\* creation with ValueError, and no provider instance exists afterwards.
C30_CreationFailsClosed ==
    llm.pc \in {"created", "refused"} =>
        LET r == llm.request[1]
            bad == IF "provider_name" \in DOMAIN r
                   THEN r.provider_name \notin {"openai", "groq"}
                   ELSE CASE Lower(r.LLM_PROVIDER) = "groq" ->
                                 r.GROQ_API_KEY \in {None, Some("")}
                          [] Lower(r.LLM_PROVIDER) = "openai" ->
                                 r.OPENAI_API_KEY \in {None, Some("")}
                          [] OTHER -> TRUE
        IN  /\ bad => /\ llm.pc = "refused"
                      /\ llm.created = Raised("ValueError")
                      /\ llm.instance = None
            /\ llm.pc = "refused" => llm.instance = None

\* C30 witness: groq is configured in capitals with an empty key, beside a
\* good key for openai, and the creation was refused.
C30_Witness ==
    /\ llm.pc = "refused"
    /\ "LLM_PROVIDER" \in DOMAIN llm.request[1]
    /\ llm.request[1].LLM_PROVIDER = "GROQ"
    /\ llm.request[1].GROQ_API_KEY = Some("")
    /\ llm.request[1].OPENAI_API_KEY = Some("secret-key")
    /\ llm.created = Raised("ValueError")
    /\ llm.instance = None

=============================================================================
